---- MODULE Spec2Model ----
(***************************************************************************)
(* Model of osint/scripts/threatQ.py: the C2 master-list analysis script.  *)
(* A Python str is a sequence of one-character strings; a Python list is a *)
(* sequence; a list object lives in `heap` and names hold references.      *)
(***************************************************************************)
EXTENDS Integers, Sequences, FiniteSets, TLC

\* ---------------------------------------------------------------- bounds
MaxData == 2
MaxDrop == 2
MaxHdr == 2
MaxLoc == 2
MaxThr == 2

\* ------------------------------------------------------ program constants
ScriptDropElements == 15
ScriptDateLoc == 3
ThresholdDomainIp == 2
ThresholdDomainRegIp == 10
ThresholdDomainReg == 5
ThresholdMalware == 0

Schema == <<"domain", "domain_ip", "domain_registrar", "domain_registrar_ip", "malware", "url_feed">>

N == Len(Schema)

PatPrefix == <<"M", "a", "s", "t", "e", "r", " ", "I", "n", "d", "i", "c", "a", "t", "o", "r", " ", "F", "e", "e", "d", " ", "f", "o", "r", " ">>

PatSuffix == <<" ", "n", "o", "n", "-", "s", "i", "n", "k", "h", "o", "l", "e", "d", " ", "d", "o", "m", "a", "i", "n", "s">>

Lower == {"a", "b", "c", "d", "e", "f", "g", "h", "i", "j", "k", "l", "m", "n", "o", "p", "q", "r", "s", "t", "u", "v", "w", "x", "y", "z"}

Digit == {"0", "1", "2", "3", "4", "5", "6", "7", "8", "9"}

DateSeps == <<"-", "-">>

TimeSeps == <<":">>

\* ---------------------------------------------- values that are not a str
\* None (pandas pads short rows with it), NaN (missing cell), 0 (fillna(0)).
None == <<"<None>">>

NaN == <<"<NaN>">>

Zero == <<"<0>">>

IsStr(v) == v \notin {None, NaN, Zero}

\* ------------------------------------------------------------ input lines
\* "a,1,r,5|9,Master Indicator Feed for abc non-sinkholed domains,u"
L1 == <<"a", ",", "1", ",", "r", ",", "5", "|", "9", ",", "M", "a", "s", "t", "e", "r", " ", "I", "n", "d", "i", "c", "a", "t", "o", "r", " ", "F", "e", "e", "d", " ", "f", "o", "r", " ", "a", "b", "c", " ", "n", "o", "n", "-", "s", "i", "n", "k", "h", "o", "l", "e", "d", " ", "d", "o", "m", "a", "i", "n", "s", ",", "u">>

\* "b,1,s,5,x,u"
L2 == <<"b", ",", "1", ",", "s", ",", "5", ",", "x", ",", "u">>

\* "c,2,,,x,u"      empty registrar and registrar ip
L3 == <<"c", ",", "2", ",", ",", ",", "x", ",", "u">>

\* "d,2,r,5|9|5,x,u"
L4 == <<"d", ",", "2", ",", "r", ",", "5", "|", "9", "|", "5", ",", "x", ",", "u">>

\* "e,1"            two parts
L5 == <<"e", ",", "1">>

\* "f,1,r,5,x"      five parts
L6 == <<"f", ",", "1", ",", "r", ",", "5", ",", "x">>

\* "g,1,r,5,x,u,z"  seven parts
L7 == <<"g", ",", "1", ",", "r", ",", "5", ",", "x", ",", "u", ",", "z">>

EmptyLine == <<>>

LinePool == {L1, L2, L3, L4, L5, L6, L7, EmptyLine}

\* "# 2018-12-26 14:05"
M1 == <<"#", " ", "2", "0", "1", "8", "-", "1", "2", "-", "2", "6", " ", "1", "4", ":", "0", "5">>

\* "# 14:05"        no date token
M2 == <<"#", " ", "1", "4", ":", "0", "5">>

\* "# 2018-12-26"   no time token
M3 == <<"#", " ", "2", "0", "1", "8", "-", "1", "2", "-", "2", "6">>

MetaPool == {M1, M2, M3}

Comment == <<"#">>

\* -------------------------------------------------------- generic helpers
Range(s) == {s[i] : i \in DOMAIN s}

Front(s) == SubSeq(s, 1, Len(s) - 1)

Last(s) == s[Len(s)]

MaxOf(S) == CHOOSE m \in S : \A x \in S : x <= m

RECURSIVE Concat(_)
Concat(ss) == IF ss = <<>> THEN <<>> ELSE Head(ss) \o Concat(Tail(ss))

RECURSIVE SeqsUpTo(_, _)
SeqsUpTo(S, n) ==
  IF n = 0 THEN {<<>>}
  ELSE LET shorter == SeqsUpTo(S, n - 1)
       IN shorter \cup {Append(s, x) : s \in shorter, x \in S}

\* ------------------------------------------------------------ str methods
\* str.split(sep) for a one-character separator
RECURSIVE Split(_, _)
Split(s, sep) ==
  IF \A i \in DOMAIN s : s[i] # sep THEN <<s>>
  ELSE LET p == CHOOSE i \in DOMAIN s : s[i] = sep /\ \A j \in 1..(i - 1) : s[j] # sep
       IN <<SubSeq(s, 1, p - 1)>> \o Split(SubSeq(s, p + 1, Len(s)), sep)

\* end of the longest run of characters of class C that starts at i (i-1: no run)
RunEnd(s, i, C) ==
  CHOOSE j \in (i - 1)..Len(s) :
    /\ \A k \in i..j : s[k] \in C
    /\ (j = Len(s) \/ s[j + 1] \notin C)

\* match of \d+ (sep \d+)* at position i: its end, or 0
RECURSIVE MatchEnd(_, _, _)
MatchEnd(s, i, seps) ==
  LET e == RunEnd(s, i, Digit)
  IN IF i > Len(s) \/ e < i THEN 0
     ELSE IF seps = <<>> THEN e
     ELSE IF e + 1 <= Len(s) /\ s[e + 1] = Head(seps) THEN MatchEnd(s, e + 2, Tail(seps))
     ELSE 0

\* re.findall: the non-overlapping matches, left to right
RECURSIVE FindAll(_, _, _)
FindAll(s, i, seps) ==
  IF i > Len(s) THEN <<>>
  ELSE LET e == MatchEnd(s, i, seps)
       IN IF e = 0 THEN FindAll(s, i + 1, seps)
          ELSE <<SubSeq(s, i, e)>> \o FindAll(s, e + 1, seps)

\* str.extract of 'Master Indicator Feed for ([a-z]+) non-sinkholed domains'
ExtractMalware(v) ==
  IF ~IsStr(v) THEN NaN
  ELSE LET P == Len(PatPrefix)
           Q == Len(PatSuffix)
           ok(i) == /\ i + P - 1 <= Len(v)
                    /\ SubSeq(v, i, i + P - 1) = PatPrefix
                    /\ LET e == RunEnd(v, i + P, Lower)
                       IN /\ e >= i + P
                          /\ e + Q <= Len(v)
                          /\ SubSeq(v, e + 1, e + Q) = PatSuffix
           hits == {i \in 1..Len(v) : ok(i)}
       IN IF hits = {} THEN NaN
          ELSE LET i == CHOOSE h \in hits : \A g \in hits : h <= g
               IN SubSeq(v, i + P, RunEnd(v, i + P, Lower))

\* --------------------------------------------------- list and table helpers
\* variant: the start is clamped to the last index instead of the length
Slice_clamped(l, H) ==
  IF H >= Len(l) /\ Len(l) > 0 THEN <<l[Len(l)]>> ELSE SubSeq(l, H + 1, Len(l))

\* l[H:] for H >= 0: a slice past the end is the empty list
Slice(l, H) == SubSeq(l, H + 1, Len(l))

\* variant: a slice from 0 hands back the list itself
SliceRef_alias(ref, H) == IF H = 0 THEN ref ELSE ref + 1

\* a slice expression evaluates to a new list object
SliceRef(ref, H) == ref + 1

\* list.remove(x): drops the first element equal to x, ValueError when none is
ListRemove(l, x) ==
  IF x \notin Range(l) THEN [err |-> "ValueError", list |-> l]
  ELSE LET p == CHOOSE i \in DOMAIN l : l[i] = x /\ \A j \in 1..(i - 1) : l[j] # x
       IN [err |-> "none", list |-> SubSeq(l, 1, p - 1) \o SubSeq(l, p + 1, Len(l))]

\* pd.DataFrame({'col': []}).col has dtype float64 or object, depending on the
\* pandas version; .str raises AttributeError on the former
EmptyColumnOutcomes == {"AttributeError", "none"}

\* Series.plot of an empty Series raises TypeError ("no numeric data to plot")
\* or draws an empty figure, depending on the pandas version
EmptyPlotOutcomes == {"TypeError", "none"}

\* df.col.str.split(',', -1).tolist()
StrSplitColumn(lines) == [i \in DOMAIN lines |-> Split(lines[i], ",")]

\* pd.DataFrame(rows, columns=Schema): rows are padded with None to the longest
\* row, and the padded width must equal the number of column names (if not,
\* AssertionError or ValueError by pandas version: "ColumnCountError" here)
DataFrame(rows) ==
  IF rows = <<>> THEN [err |-> "none", df |-> <<>>]
  ELSE LET W == MaxOf({Len(rows[i]) : i \in DOMAIN rows})
           pad(r) == r \o [k \in 1..(W - Len(r)) |-> None]
       IN IF W # N THEN [err |-> "ColumnCountError", df |-> <<>>]
          ELSE [err |-> "none",
                df |-> [i \in DOMAIN rows |->
                          [f \in Range(Schema) |->
                             pad(rows[i])[CHOOSE k \in DOMAIN Schema : Schema[k] = f]]]]

\* variant: a row's missing positions are filled with the empty string
ExpandColumns_padded(values) ==
  LET parts == [i \in DOMAIN values |-> Split(values[i], "|")]
      positions == UNION {0..(Len(parts[i]) - 1) : i \in DOMAIN values}
      M == Cardinality(positions)
  IN [columns |-> [c \in 1..M |-> c - 1],
      cells |-> [i \in DOMAIN values |->
                   [c \in 1..M |-> IF c <= Len(parts[i]) THEN parts[i][c] ELSE <<>>]]]

\* df[field].apply(lambda x: pd.Series(x.split('|'))): one column per position
\* that occurs in some row, NaN where a row has no value at that position
ExpandColumns(values) ==
  LET parts == [i \in DOMAIN values |-> Split(values[i], "|")]
      positions == UNION {0..(Len(parts[i]) - 1) : i \in DOMAIN values}
      M == Cardinality(positions)
  IN [columns |-> [c \in 1..M |-> c - 1],
      cells |-> [i \in DOMAIN values |->
                   [c \in 1..M |-> IF c <= Len(parts[i]) THEN parts[i][c] ELSE NaN]]]

EmptyData == [df |-> <<>>, columns |-> <<>>, cells |-> <<>>]

clean_data(df) ==
  LET extracted == [i \in DOMAIN df |-> ExtractMalware(df[i].malware)]
      filled == [i \in DOMAIN df |-> IF extracted[i] = NaN THEN Zero ELSE extracted[i]]
      df1 == [i \in DOMAIN df |-> [df[i] EXCEPT !.malware = filled[i]]]
      values == [i \in DOMAIN df |-> df[i].domain_registrar_ip]
  IN IF \E i \in DOMAIN values : ~IsStr(values[i])
       THEN [err |-> "AttributeError", line |-> 123, data |-> EmptyData]
     \* apply on an empty column returns a Series, which has no .columns
     ELSE IF df = <<>>
       THEN [err |-> "AttributeError", line |-> 125, data |-> EmptyData]
     ELSE LET x == ExpandColumns(values)
          IN [err |-> "none", line |-> 0,
              data |-> [df |-> df1, columns |-> x.columns, cells |-> x.cells]]

\* variant: empty tokens are not appended
parse_and_flatten_nonempty(data, field_name) ==
  LET lst == [i \in DOMAIN data.df |-> data.df[i][field_name]]
  IN IF \E i \in DOMAIN lst : ~IsStr(lst[i])
       THEN [err |-> "AttributeError", lst |-> <<>>]
     ELSE [err |-> "none",
           lst |-> SelectSeq(Concat([i \in DOMAIN lst |-> Split(lst[i], "|")]),
                             LAMBDA x : x # <<>>)]

parse_and_flatten(data, field_name) ==
  LET lst == [i \in DOMAIN data.df |-> data.df[i][field_name]]
  IN IF \E i \in DOMAIN lst : ~IsStr(lst[i])
       THEN [err |-> "AttributeError", lst |-> <<>>]
     ELSE [err |-> "none", lst |-> Concat([i \in DOMAIN lst |-> Split(lst[i], "|")])]

NoCounts == [t \in {} |-> 0]

\* collections.Counter(lst)
RECURSIVE Counter(_)
Counter(lst) ==
  IF lst = <<>> THEN NoCounts
  ELSE LET c == Counter(Front(lst))
           x == Last(lst)
       IN IF x \in DOMAIN c THEN [c EXCEPT ![x] = @ + 1] ELSE c @@ (x :> 1)

\* variant: val >= threshold
summarize_ge(lst, threshold) ==
  LET freq == Counter(lst)
  IN [key \in {k \in DOMAIN freq : freq[k] >= threshold} |-> freq[key]]

summarize(lst, threshold) ==
  LET freq == Counter(lst)
  IN [key \in {k \in DOMAIN freq : freq[k] > threshold} |-> freq[key]]

\* df[field].value_counts() filtered by x > threshold_value
bar_plot(data, field_name, threshold_value) ==
  LET col == [i \in DOMAIN data.df |-> data.df[i][field_name]]
      x == Counter(SelectSeq(col, LAMBDA v : v \notin {None, NaN}))
  IN [key \in {k \in DOMAIN x : x[k] > threshold_value} |-> x[key]]

get_date(logs_feed_list, loc) ==
  IF loc >= Len(logs_feed_list) THEN [err |-> "IndexError", found |-> <<>>]
  ELSE [err |-> "none", found |-> FindAll(logs_feed_list[loc + 1], 1, DateSeps)]

get_timestamp(logs_feed_list, loc) ==
  IF loc >= Len(logs_feed_list) THEN [err |-> "IndexError", found |-> <<>>]
  ELSE [err |-> "none", found |-> FindAll(logs_feed_list[loc + 1], 1, TimeSeps)]

\* ------------------------------------------------------------------ state
VARIABLES
  feed_text,      \* the lines read_data returned, as they were when it returned
  heap,           \* list objects by reference
  cc_list,        \* reference held by the script's name cc_list
  logs_feed,      \* reference held by create_data_frame's local name (0: unbound)
  cc_df, cc_data, feed_date, feed_time,
  flat_lst,       \* domain_ip_lst, domain_reg_ip_lst, domain_reg_lst
  summaries,      \* domain_ip_sum, domain_reg_ip_sum, domain_reg_sum
  plots,          \* the figures saved so far
  drop_elements, date_loc, thresholds,
  stage, pc, err, err_line

vars == <<feed_text, heap, cc_list, logs_feed, cc_df, cc_data, feed_date, feed_time,
          flat_lst, summaries, plots, drop_elements, date_loc, thresholds,
          stage, pc, err, err_line>>

config == <<feed_text, cc_list, drop_elements, date_loc, thresholds>>

\* the three flatten / summarize / plot blocks of the script
Stages == <<
  [field |-> "domain_ip", flatten_line |-> 205, plot_line |-> 207, file |-> "top10_c2_malware_source_IPs.png"],
  [field |-> "domain_registrar_ip", flatten_line |-> 219, plot_line |-> 221, file |-> "top10_domain_registrar_IPs.png"],
  [field |-> "domain_registrar", flatten_line |-> 228, plot_line |-> 230, file |-> "domain_registrars.png"]>>

\* hl leading lines, the one at index loc (when there is one) being meta
Header(hl, loc, meta) == [i \in 1..hl |-> IF i = loc + 1 THEN meta ELSE Comment]

\* data part of a feed: up to MaxData lines, then the blank last line or not
DataParts == {body \o tail : body \in SeqsUpTo(LinePool, MaxData), tail \in {<<>>, <<EmptyLine>>}}

Fail(e, line) == pc' = "failed" /\ err' = e /\ err_line' = line

InitRun ==
  /\ cc_list = 1
  /\ heap = (cc_list :> feed_text)
  /\ logs_feed = 0
  /\ cc_df = <<>>
  /\ cc_data = EmptyData
  /\ feed_date = <<>>
  /\ feed_time = <<>>
  /\ flat_lst = <<<<>>, <<>>, <<>>>>
  /\ summaries = <<NoCounts, NoCounts, NoCounts>>
  /\ plots = <<>>
  /\ stage = 1
  /\ pc = "create_data_frame"
  /\ err = "none"
  /\ err_line = 0

\* the script as written: read_data's result with the script's arguments
Init ==
  /\ drop_elements = ScriptDropElements
  /\ date_loc = ScriptDateLoc
  /\ thresholds = <<ThresholdDomainIp, ThresholdDomainRegIp, ThresholdDomainReg>>
  /\ \E hl \in {ScriptDateLoc, ScriptDropElements}, meta \in MetaPool, data \in DataParts :
       feed_text = Header(hl, date_loc, meta) \o data
  /\ InitRun

\* the same functions called with arguments drawn from bounded sets
InitFn ==
  /\ drop_elements \in 0..MaxDrop
  /\ date_loc \in 0..MaxLoc
  /\ \E t \in (0 - 1)..MaxThr : thresholds = <<t, t, t>>
  /\ \E hl \in 0..MaxHdr, meta \in MetaPool, data \in DataParts :
       feed_text = Header(hl, date_loc, meta) \o data
  /\ InitRun

\* line 196, lines 82-103
CreateDataFrame ==
  /\ pc = "create_data_frame"
  /\ LET ref == SliceRef(cc_list, drop_elements)
         h1 == (ref :> Slice(heap[cc_list], drop_elements)) @@ heap
         rm == ListRemove(h1[ref], EmptyLine)
         h2 == (ref :> rm.list) @@ h1
         frame == DataFrame(StrSplitColumn(rm.list))
     IN /\ logs_feed' = ref
        /\ heap' = h2
        /\ \E outcome \in EmptyColumnOutcomes :
             IF rm.err # "none" THEN Fail(rm.err, 98) /\ UNCHANGED cc_df
             ELSE IF rm.list = <<>> /\ outcome # "none" THEN Fail(outcome, 101) /\ UNCHANGED cc_df
             ELSE IF frame.err # "none" THEN Fail(frame.err, 101) /\ UNCHANGED cc_df
             ELSE cc_df' = frame.df /\ pc' = "clean_data" /\ UNCHANGED <<err, err_line>>
  /\ UNCHANGED <<config, cc_data, feed_date, feed_time, flat_lst, summaries, plots, stage>>

\* line 197, lines 106-129
CleanData ==
  /\ pc = "clean_data"
  /\ LET r == clean_data(cc_df)
     IN IF r.err # "none" THEN Fail(r.err, r.line) /\ UNCHANGED cc_data
        ELSE cc_data' = r.data /\ pc' = "get_date" /\ UNCHANGED <<err, err_line>>
  /\ UNCHANGED <<config, heap, logs_feed, cc_df, feed_date, feed_time, flat_lst, summaries, plots, stage>>

\* line 201
GetDate ==
  /\ pc = "get_date"
  /\ LET r == get_date(heap[cc_list], date_loc)
     IN IF r.err # "none" THEN Fail(r.err, 59) /\ UNCHANGED feed_date
        ELSE feed_date' = r.found /\ pc' = "get_timestamp" /\ UNCHANGED <<err, err_line>>
  /\ UNCHANGED <<config, heap, logs_feed, cc_df, cc_data, feed_time, flat_lst, summaries, plots, stage>>

\* line 202
GetTimestamp ==
  /\ pc = "get_timestamp"
  /\ LET r == get_timestamp(heap[cc_list], date_loc)
     IN IF r.err # "none" THEN Fail(r.err, 77) /\ UNCHANGED feed_time
        ELSE feed_time' = r.found /\ pc' = "flatten" /\ UNCHANGED <<err, err_line>>
  /\ UNCHANGED <<config, heap, logs_feed, cc_df, cc_data, feed_date, flat_lst, summaries, plots, stage>>

\* lines 205, 219, 228
Flatten ==
  /\ pc = "flatten"
  /\ LET r == parse_and_flatten(cc_data, Stages[stage].field)
     IN IF r.err # "none" THEN Fail(r.err, 166) /\ UNCHANGED flat_lst
        ELSE flat_lst' = [flat_lst EXCEPT ![stage] = r.lst] /\ pc' = "summarize"
             /\ UNCHANGED <<err, err_line>>
  /\ UNCHANGED <<config, heap, logs_feed, cc_df, cc_data, feed_date, feed_time, summaries, plots, stage>>

\* lines 206, 220, 229
Summarize ==
  /\ pc = "summarize"
  /\ summaries' = [summaries EXCEPT ![stage] = summarize(flat_lst[stage], thresholds[stage])]
  /\ pc' = "plot"
  /\ UNCHANGED <<config, heap, logs_feed, cc_df, cc_data, feed_date, feed_time, flat_lst, plots, stage, err, err_line>>

\* lines 207-209, 221-224, 230-233: the title needs feed_date[0]
Plot ==
  /\ pc = "plot"
  /\ \E outcome \in EmptyPlotOutcomes :
     IF feed_date = <<>>
       THEN Fail("IndexError", Stages[stage].plot_line) /\ UNCHANGED <<plots, stage>>
     ELSE IF DOMAIN summaries[stage] = {} /\ outcome # "none"
       THEN Fail(outcome, Stages[stage].plot_line) /\ UNCHANGED <<plots, stage>>
     ELSE /\ plots' = Append(plots, [file |-> Stages[stage].file, as_of |-> feed_date[1],
                                      data |-> summaries[stage]])
          /\ IF stage = 1 THEN pc' = "bar_plot" /\ UNCHANGED stage
             ELSE IF stage < Len(Stages) THEN pc' = "flatten" /\ stage' = stage + 1
             ELSE pc' = "done" /\ UNCHANGED stage
          /\ UNCHANGED <<err, err_line>>
  /\ UNCHANGED <<config, heap, logs_feed, cc_df, cc_data, feed_date, feed_time, flat_lst, summaries>>

\* lines 212-216
BarPlot ==
  /\ pc = "bar_plot"
  /\ \E outcome \in EmptyPlotOutcomes :
     IF feed_date = <<>>
       THEN Fail("IndexError", 212) /\ UNCHANGED <<plots, stage>>
     ELSE IF DOMAIN bar_plot(cc_data, "malware", ThresholdMalware) = {} /\ outcome # "none"
       THEN Fail(outcome, 147) /\ UNCHANGED <<plots, stage>>
     ELSE /\ plots' = Append(plots, [file |-> "malware_frequency.png", as_of |-> feed_date[1],
                                      data |-> bar_plot(cc_data, "malware", ThresholdMalware)])
          /\ pc' = "flatten"
          /\ stage' = stage + 1
          /\ UNCHANGED <<err, err_line>>
  /\ UNCHANGED <<config, heap, logs_feed, cc_df, cc_data, feed_date, feed_time, flat_lst, summaries>>

Next ==
  \/ CreateDataFrame
  \/ CleanData
  \/ GetDate
  \/ GetTimestamp
  \/ Flatten
  \/ Summarize
  \/ Plot
  \/ BarPlot

Spec == Init /\ [][Next]_vars

SpecFn == InitFn /\ [][Next]_vars

\* ------------------------------------------------------- claim vocabulary
\* str.join
RECURSIVE Join(_, _)
Join(parts, sep) ==
  IF parts = <<>> THEN <<>>
  ELSE IF Len(parts) = 1 THEN parts[1]
  ELSE parts[1] \o <<sep>> \o Join(Tail(parts), sep)

Bars(v) == Cardinality({j \in DOMAIN v : v[j] = "|"})

Occurrences(lst, t) == Cardinality({i \in DOMAIN lst : lst[i] = t})

RECURSIVE SumOver(_, _)
SumOver(f, n) == IF n = 0 THEN 0 ELSE f[n] + SumOver(f, n - 1)

CreateLines == {98, 101}

CleanLines == {123, 125}

MetadataLines == {59, 77, 207, 212, 221, 230}

\* create_data_frame has returned a table
Created == pc # "create_data_frame" /\ ~(pc = "failed" /\ err_line \in CreateLines)

\* clean_data has returned a table
Cleaned == Created /\ pc # "clean_data" /\ ~(pc = "failed" /\ err_line \in CleanLines)

\* parse_and_flatten has returned for block k
FailedAfterSummarize(k) == pc = "failed" /\ err_line \in {Stages[k].plot_line, 212, 147}

Flattened(k) ==
  Cleaned /\ (k < stage \/ (k = stage /\ (pc \in {"summarize", "plot", "bar_plot", "done"} \/ FailedAfterSummarize(k))))

\* summarize has returned for block k
Summarized(k) ==
  Cleaned /\ (k < stage \/ (k = stage /\ (pc \in {"plot", "bar_plot", "done"} \/ FailedAfterSummarize(k))))

\* the data lines after the first drop_elements lines
DataLines == Slice(feed_text, drop_elements)

\* C1: summarize(lst, T) maps exactly the tokens that occur more than T times in
\* lst to their occurrence counts; a token occurring exactly T times is left
\* out, and with T = 0 every token of lst is kept.
C1_SummarizeStrictlyAbove ==
  \A k \in DOMAIN Stages :
    Summarized(k) =>
      LET lst == flat_lst[k]
          T == thresholds[k]
          sum == summaries[k]
      IN /\ DOMAIN sum = {t \in Range(lst) : Occurrences(lst, t) > T}
         /\ \A t \in DOMAIN sum : sum[t] = Occurrences(lst, t)
         /\ \A t \in Range(lst) : Occurrences(lst, t) = T => t \notin DOMAIN sum
         /\ T = 0 => DOMAIN sum = Range(lst)

C1_Witness ==
  \E k \in DOMAIN Stages :
    /\ Summarized(k)
    /\ thresholds[k] >= 1
    /\ \E t \in Range(flat_lst[k]) : Occurrences(flat_lst[k], t) = thresholds[k]
    /\ \E t \in DOMAIN summaries[k] : summaries[k][t] = thresholds[k] + 1

\* C2: parse_and_flatten returns, record after record, the '|'-separated parts
\* of the record's value in their order: its length is the sum over the
\* records of 1 + the number of '|' in the value, a value without '|' gives
\* itself and an empty value gives one empty token.
C2_FlattenLaw ==
  \A k \in DOMAIN Stages :
    Flattened(k) =>
      LET col == [i \in DOMAIN cc_data.df |-> cc_data.df[i][Stages[k].field]]
          width == [i \in DOMAIN col |-> 1 + Bars(col[i])]
          off(i) == SumOver(width, i - 1)
          flat == flat_lst[k]
      IN /\ Len(flat) = SumOver(width, Len(col))
         /\ \A i \in DOMAIN col :
              LET toks == SubSeq(flat, off(i) + 1, off(i) + width[i])
              IN /\ Join(toks, "|") = col[i]
                 /\ \A j \in DOMAIN toks : "|" \notin Range(toks[j])
                 /\ Bars(col[i]) = 0 => toks = <<col[i]>>
                 /\ col[i] = <<>> => toks = <<<<>>>>

C2_Witness ==
  \E k \in DOMAIN Stages :
    /\ Flattened(k)
    /\ \E i, j \in DOMAIN cc_data.df :
         /\ i < j
         /\ cc_data.df[i][Stages[k].field] = <<>>
         /\ Bars(cc_data.df[j][Stages[k].field]) = 2
    /\ Len(flat_lst[k]) = 4

\* C3: create_data_frame removes one empty string from the data lines exactly
\* when it is their last element, and otherwise leaves them as they are
\* without raising.
C3_OnlyTrailingEmptyRemoved ==
  pc # "create_data_frame" =>
    IF DataLines # <<>> /\ Last(DataLines) = EmptyLine
      THEN heap[logs_feed] = Front(DataLines) /\ err_line # 98
      ELSE heap[logs_feed] = DataLines /\ err_line # 98

\* C4: with drop_elements >= the number of feed lines, the slice that strips
\* the header gives the empty list and raises nothing at that statement.
C4_SlicePastEndIsEmpty ==
  (pc # "create_data_frame" /\ drop_elements >= Len(feed_text)) =>
    /\ heap[logs_feed] = <<>>
    /\ err # "IndexError"
    /\ err_line # 97

C4_Witness ==
  /\ pc = "failed"
  /\ Len(feed_text) > 0
  /\ drop_elements >= Len(feed_text)
  /\ Last(feed_text) # EmptyLine
  /\ heap[logs_feed] = <<>>

\* C5: when the line at date_loc has no date token or no time token, or there
\* is no such line, the run does not stop with an IndexError at get_date,
\* get_timestamp or at a statement that uses their result.
C5_MissingMetadataNonFatal ==
  LET missing == \/ date_loc >= Len(feed_text)
                 \/ FindAll(feed_text[date_loc + 1], 1, DateSeps) = <<>>
                 \/ FindAll(feed_text[date_loc + 1], 1, TimeSeps) = <<>>
  IN missing => ~(pc = "failed" /\ err = "IndexError" /\ err_line \in MetadataLines)

\* C6: every record of the table create_data_frame returns comes from a data
\* line with exactly N comma-separated parts, and has no filled-in field.
C6_RecordsHaveExactArity ==
  Created =>
    \A i \in DOMAIN cc_df :
      /\ Len(Split(heap[logs_feed][i], ",")) = N
      /\ \A f \in Range(Schema) : cc_df[i][f] # None

\* C7: the table create_data_frame returns has one record per non-empty data
\* line (the code rejects no line on its own), so no empty line gives a record.
C7_RecordCountIsNonEmptyLines ==
  Created =>
    Len(cc_df) = Cardinality({i \in DOMAIN DataLines : DataLines[i] # EmptyLine})

\* C8: when no data line is left after dropping the header and the trailing
\* empty line, the run ends with EmptyFeedError and clean_data is never
\* reached.
C8_EmptyFeedIsFatal ==
  LET left == IF DataLines # <<>> /\ Last(DataLines) = EmptyLine
                THEN Front(DataLines) ELSE DataLines
  IN (left = <<>> /\ pc # "create_data_frame") =>
       /\ pc = "failed"
       /\ err = "EmptyFeedError"

\* C9: after clean_data the expansion columns are 0 .. M-1, M the largest
\* number of '|'-separated parts of domain_registrar_ip over the records; a
\* record with k parts holds its i-th part in column i < k and NaN in the
\* columns k .. M-1; clean_data fails only on an empty table or a value that
\* is not a string.
C9_RaggedExpansion ==
  /\ Cleaned =>
       LET fan == [i \in DOMAIN cc_df |-> 1 + Bars(cc_df[i].domain_registrar_ip)]
           M == MaxOf(Range(fan))
       IN /\ cc_data.columns = [c \in 1..M |-> c - 1]
          /\ DOMAIN cc_data.cells = DOMAIN cc_df
          /\ \A i \in DOMAIN cc_df :
               /\ Len(cc_data.cells[i]) = M
               /\ Join(SubSeq(cc_data.cells[i], 1, fan[i]), "|") = cc_df[i].domain_registrar_ip
               /\ \A c \in 1..fan[i] : IsStr(cc_data.cells[i][c]) /\ "|" \notin Range(cc_data.cells[i][c])
               /\ \A c \in (fan[i] + 1)..M : cc_data.cells[i][c] = NaN
  /\ (pc = "failed" /\ err_line \in CleanLines) =>
       (cc_df = <<>> \/ \E i \in DOMAIN cc_df : ~IsStr(cc_df[i].domain_registrar_ip))

C9_Witness ==
  /\ Cleaned
  /\ Len(cc_data.columns) = 3
  /\ \E i \in DOMAIN cc_df : Bars(cc_df[i].domain_registrar_ip) = 0 /\ cc_data.cells[i][3] = NaN

\* C10: the list the caller passed to create_data_frame is never changed, and
\* get_date / get_timestamp called afterwards read the line read_data returned
\* at date_loc.
C10_CallerListUnchanged ==
  /\ heap[cc_list] = feed_text
  /\ (Cleaned /\ pc \notin {"get_date"} /\ ~(pc = "failed" /\ err_line = 59)) =>
       feed_date = FindAll(feed_text[date_loc + 1], 1, DateSeps)
  /\ (Cleaned /\ pc \notin {"get_date", "get_timestamp"} /\ ~(pc = "failed" /\ err_line \in {59, 77})) =>
       feed_time = FindAll(feed_text[date_loc + 1], 1, TimeSeps)

C10_Witness ==
  /\ drop_elements = 0
  /\ pc = "flatten"
  /\ stage = 1
  /\ heap[logs_feed] # feed_text
  /\ heap[cc_list] = feed_text

====
